---- MODULE Spec2Model ----
(***************************************************************************)
(* A model of evaluate_nc.py: the result aggregator save_test_results      *)
(* (pandas read_csv / combine_first / to_csv on a CSV keyed by seed), the  *)
(* lock decorator lock_method around it, the set-up steps of main, and the *)
(* repeat/percentage loop of evaluate_node_classification.                 *)
(*                                                                         *)
(* Floating-point scores are abstracted to the two literals of Floats and  *)
(* the missing value NaN; the exactness of pandas' float formatting and    *)
(* parsing is not modelled.                                                *)
(***************************************************************************)
EXTENDS Integers, Sequences, FiniteSets, TLC

\* ------------------------------------------------------------------ bounds
\* seeds passed to save_test_results range over 0..MaxSeed
MaxSeed == 1
\* number of concurrent OS processes running main
NumProcs == 2
\* n_repeats ranges over 0..MaxRepeats
MaxRepeats == 2
\* label_percentages has at most MaxPcts entries
MaxPcts == 2

Seeds == 0..MaxSeed
Procs == 1..NumProcs

\* column keys of a result record, in the (lexicographic) order pandas sorts them
Keys == <<"a", "b">>
KeySet == {Keys[i] : i \in 1..Len(Keys)}
\* the non-missing float values a record may hold
Floats == {"1.0", "2.0"}
NaN == "NaN"
\* the values tried under each key: both floats and the missing value under
\* "a", a single float under "b"
ValsOf(k) == IF k = "a" THEN Floats \cup {NaN} ELSE {"2.0"}

\* the dicts `data` handed to save_test_results: any subset of the keys
Records ==
    UNION {{r \in [K -> Floats \cup {NaN}] : \A k \in K : r[k] \in ValsOf(k)} :
              K \in SUBSET KeySet}
\* the dicts main builds: every key present, every value a float score
MainRecords == {r \in Records : DOMAIN r = KeySet /\ \A k \in KeySet : r[k] # NaN}
NoData == [k \in {} |-> NaN]

VARIABLES
    \* ---- the result file and the sequential caller of save_test_results
    file,        \* test_results.csv on disk
    call,        \* the last save_test_results call: seed, data, outcome
    savedSeeds,  \* seeds of the calls that returned normally
    defined,     \* <<seed, key>> pairs some returned call had in its data
    \* ---- processes running main concurrently
    pc,          \* where each process is in main
    dirExists,   \* the results directory exists
    lockExists,  \* test_results.lock exists
    lockOwner,   \* the process holding the exclusive lock on it, 0 if none
    fpOpen,      \* the process has the lock file open as fp
    spun,        \* the process has had a lock attempt refused
    argData,     \* the data the process passed to threadsafe_save_test_results
    test_df,     \* the local frame of save_test_results
    err,         \* the exception that ended the process, "none" if none
    \* ---- evaluate_node_classification
    n_repeats,          \* the argument n_repeats
    label_percentages,  \* the argument label_percentages
    ecall,              \* calls started with these arguments
    seed,               \* the outer loop variable
    i,                  \* the inner loop index
    f1_micros,          \* the (n_repeats x len(label_percentages)) matrices
    f1_macros,
    rsUsed,             \* per cell, the random_state of each split scored into it
    scores,             \* what fit/predict/f1_score gave for each split drawn so far
    out                 \* the tuples returned, one per finished call

seqVars == <<call, savedSeeds, defined>>
procVars == <<pc, dirExists, lockExists, lockOwner, fpOpen, spun, argData,
              test_df, err>>
evalVars == <<n_repeats, label_percentages, ecall, seed, i, f1_micros,
              f1_macros, rsUsed, scores, out>>
vars == <<file, seqVars, procVars, evalVars>>

\* ------------------------------------------------------------ small helpers
Range(s) == {s[j] : j \in 1..Len(s)}

Min(S) == CHOOSE x \in S : \A y \in S : x <= y

RECURSIVE SortedSeq(_)
\* the elements of a finite set of integers in increasing order
SortedSeq(S) == IF S = {} THEN <<>> ELSE <<Min(S)>> \o SortedSeq(S \ {Min(S)})

\* the keys of K in sorted order
SortKeys(K) == SelectSeq(Keys, LAMBDA k : k \in K)

NoDups(s) == \A j, k \in 1..Len(s) : j # k => s[j] # s[k]

\* position of the first row labelled s (0 if none)
RowPos(index, s) ==
    LET hits == {j \in 1..Len(index) : index[j] = s}
    IN IF hits = {} THEN 0 ELSE Min(hits)

ColPos(columns, c) == Min({j \in 1..Len(columns) : columns[j] = c})

\* ------------------------------------------------------------- data frames
\* A frame: row labels, column labels, and one key->value function per row.

\* pd.DataFrame(index=[seed], data=data)
DataFrame(s, data) ==
    [index |-> <<s>>,
     columns |-> SortKeys(DOMAIN data),
     rows |-> <<data>>]

\* the value at label (s, c), missing when the frame has no such row or column
At(df, s, c) ==
    LET r == RowPos(df.index, s)
    IN IF r # 0 /\ c \in DOMAIN df.rows[r] THEN df.rows[r][c] ELSE NaN

\* a variant that concatenates the rows instead of aligning on the index
concat_frames(d, t) ==
    LET cols == Range(d.columns) \cup Range(t.columns)
        idx == t.index \o d.index
    IN [index |-> idx,
        columns |-> SortKeys(cols),
        rows |-> [j \in 1..Len(idx) |->
                    [c \in cols |->
                        IF j <= Len(t.index)
                        THEN (IF c \in Range(t.columns) THEN t.rows[j][c] ELSE NaN)
                        ELSE (IF c \in Range(d.columns) THEN d.rows[j - Len(t.index)][c] ELSE NaN)]]]

\* a variant in which the old table's values take precedence
combine_old_wins(d, t) ==
    LET cols == Range(d.columns) \cup Range(t.columns)
        idx == SortedSeq(Range(d.index) \cup Range(t.index))
    IN [index |-> idx,
        columns |-> SortKeys(cols),
        rows |-> [j \in 1..Len(idx) |->
                    [c \in cols |->
                        LET tv == At(t, idx[j], c)
                        IN IF tv # NaN THEN tv ELSE At(d, idx[j], c)]]]

\* a variant that keeps only the columns of the new row
combine_new_columns(d, t) ==
    LET cols == Range(d.columns)
        idx == SortedSeq(Range(d.index) \cup Range(t.index))
    IN [index |-> idx,
        columns |-> SortKeys(cols),
        rows |-> [j \in 1..Len(idx) |->
                    [c \in cols |->
                        LET dv == At(d, idx[j], c)
                        IN IF dv # NaN THEN dv ELSE At(t, idx[j], c)]]]

\* d.combine_first(t): union of the row and column labels, d's non-missing
\* values first, gaps filled from t
combine_first(d, t) ==
    LET cols == Range(d.columns) \cup Range(t.columns)
        idx == SortedSeq(Range(d.index) \cup Range(t.index))
    IN [index |-> idx,
        columns |-> SortKeys(cols),
        rows |-> [j \in 1..Len(idx) |->
                    [c \in cols |->
                        LET dv == At(d, idx[j], c)
                        IN IF dv # NaN THEN dv ELSE At(t, idx[j], c)]]]

\* ------------------------------------------------------------ the CSV file
\* kind: "absent" (no such path), "text" (a header line and one line per
\* row), "empty" (zero bytes), "garbage" (not parseable as a table).
AbsentFile == [kind |-> "absent", header |-> <<>>, lines |-> <<>>]
EmptyFile == [kind |-> "empty", header |-> <<>>, lines |-> <<>>]
GarbageFile == [kind |-> "garbage", header |-> <<>>, lines |-> <<>>]

\* to_csv writes a missing value as the empty field
FormatCell(v) == IF v = NaN THEN "" ELSE v
\* read_csv reads the empty field as a missing value
ParseCell(t) == IF t = "" THEN NaN ELSE t

\* os.path.exists(filename)
exists(f) == f.kind # "absent"

\* whether pd.read_csv returns a frame (it raises otherwise)
readable(f) == f.kind = "text"

\* test_df.to_csv(filename, sep=","): the text written
to_csv(df) ==
    [kind |-> "text",
     header |-> df.columns,
     lines |-> [j \in 1..Len(df.index) |->
                  [idx |-> df.index[j],
                   cells |-> [k \in 1..Len(df.columns) |->
                                FormatCell(df.rows[j][df.columns[k]])]]]]

\* pd.read_csv(filename, sep=",", index_col=0) of a parseable file
read_csv(f) ==
    [index |-> [j \in 1..Len(f.lines) |-> f.lines[j].idx],
     columns |-> f.header,
     rows |-> [j \in 1..Len(f.lines) |->
                 [c \in Range(f.header) |->
                     ParseCell(f.lines[j].cells[ColPos(f.header, c)])]]]

\* a variant that falls back to the new row alone when the old file does not parse
save_test_results_fallback(f, s, data) ==
    LET d == DataFrame(s, data)
    IN IF exists(f) /\ readable(f)
       THEN [file |-> to_csv(combine_first(d, read_csv(f))), outcome |-> "ok"]
       ELSE [file |-> to_csv(d), outcome |-> IF exists(f) THEN "error" ELSE "ok"]

\* save_test_results(filename, seed, data): the file afterwards and how the
\* call ended
save_test_results(f, s, data) ==
    LET d == DataFrame(s, data)
    IN IF exists(f)
       THEN IF readable(f)
            THEN [file |-> to_csv(combine_first(d, read_csv(f))), outcome |-> "ok"]
            ELSE [file |-> f, outcome |-> "error"]
       ELSE [file |-> to_csv(d), outcome |-> "ok"]

\* ------------------------------------------------ views of the file on disk
FileIndex(f) == [j \in 1..Len(f.lines) |-> f.lines[j].idx]
FileSeeds(f) == Range(FileIndex(f))
FileCols(f) == Range(f.header)
\* the parsed value of the cell at (s, c); missing when there is none
Cell(f, s, c) ==
    LET r == RowPos(FileIndex(f), s)
    IN IF readable(f) /\ r # 0 /\ c \in FileCols(f)
       THEN ParseCell(f.lines[r].cells[ColPos(f.header, c)]) ELSE NaN

\* ------------------------------------------- values of the variables at rest
NoCall == [seed |-> 0, data |-> NoData, outcome |-> "none"]
NoFrame == [index |-> <<>>, columns |-> <<>>, rows |-> <<>>]

SeqIdle ==
    /\ call = NoCall
    /\ savedSeeds = {}
    /\ defined = {}

ProcIdle ==
    /\ pc = [p \in Procs |-> "done"]
    /\ dirExists = TRUE
    /\ lockExists = TRUE
    /\ lockOwner = 0
    /\ fpOpen = [p \in Procs |-> FALSE]
    /\ spun = [p \in Procs |-> FALSE]
    /\ argData = [p \in Procs |-> NoData]
    /\ test_df = [p \in Procs |-> NoFrame]
    /\ err = [p \in Procs |-> "none"]

EvalIdle ==
    /\ n_repeats = 0
    /\ label_percentages = <<>>
    /\ ecall = 0
    /\ seed = 0
    /\ i = 0
    /\ f1_micros = <<>>
    /\ f1_macros = <<>>
    /\ rsUsed = <<>>
    /\ scores = {}
    /\ out = <<>>

\* ------------------------------- a single caller saving one result at a time
SeqInit ==
    /\ file = AbsentFile
    /\ SeqIdle
    /\ ProcIdle
    /\ EvalIdle

\* one call save_test_results(filename, s, data), from its first line to its
\* return or its exception
Save(s, data) ==
    /\ \E r \in {save_test_results(file, s, data)} :
          /\ file' = r.file
          /\ call' = [seed |-> s, data |-> data, outcome |-> r.outcome]
    /\ savedSeeds' = IF call'.outcome = "ok" THEN savedSeeds \cup {s} ELSE savedSeeds
    /\ defined' = IF call'.outcome = "ok"
                  THEN defined \cup {<<s, k>> : k \in DOMAIN data}
                  ELSE defined
    /\ UNCHANGED <<procVars, evalVars>>

\* the environment leaves a result file that cannot be parsed: zero bytes
\* (read_csv raises EmptyDataError) or text that is no table (ParserError);
\* the table the saves had built is gone, and the record of it with it
Damage ==
    /\ file.kind \in {"absent", "text"}
    /\ file' \in {EmptyFile, GarbageFile}
    /\ savedSeeds' = {}
    /\ defined' = {}
    /\ UNCHANGED <<call, procVars, evalVars>>

SeqNext ==
    \/ \E s \in Seeds, data \in Records : Save(s, data)
    \/ Damage

SeqSpec == SeqInit /\ [][SeqNext]_vars

\* a step of SeqSpec that is a call of save_test_results: every step but the
\* one that damages the file
SaveStep == ~(readable(file) \/ ~exists(file)) \/ readable(file') \/ ~exists(file')

\* C3: after any sequence of saves starting from an absent file, the table on
\* disk has at most one row per seed and its row labels are exactly the seeds
\* saved so far.
C3_OneRowPerSeed ==
    (file.kind \in {"absent", "text"}) =>
        /\ NoDups(FileIndex(file))
        /\ FileSeeds(file) = savedSeeds
        /\ (savedSeeds # {} => readable(file))

\* a table with a row for every seed, the last save having hit a seed whose
\* row already held a value from an earlier save
C3_Witness ==
    /\ readable(file)
    /\ call.outcome = "ok"
    /\ FileSeeds(file) = Seeds
    /\ \E k \in KeySet \ DOMAIN call.data : Cell(file, call.seed, k) \in Floats

\* two consecutive successful saves of the same seed: call holds r1, call' r2
Resave ==
    /\ SaveStep
    /\ call.outcome = "ok"
    /\ call'.outcome = "ok"
    /\ call'.seed = call.seed

OneRowFor(f, s) == Cardinality({j \in 1..Len(f.lines) : f.lines[j].idx = s}) = 1

C6_BadFileUntouched ==
    [][(SaveStep /\ exists(file) /\ ~readable(file)) =>
        /\ call'.outcome = "error"
        /\ file' = file]_vars

\* a save has failed on an unparseable file
C6_Witness ==
    /\ call.outcome = "error"
    /\ file.kind \in {"empty", "garbage"}
    /\ call.data # NoData

\* ------------------------------------- processes running main concurrently
\* args.seed of process p: the seeds are pairwise distinct
SeedOf(p) == p - 1

\* the fcntl lock is the process's: it goes when the process closes a
\* descriptor of the lock file or ends
Released(p) == IF lockOwner = p THEN 0 ELSE lockOwner

Init ==
    /\ file = AbsentFile
    /\ SeqIdle
    /\ EvalIdle
    /\ pc = [p \in Procs |-> "main"]
    /\ dirExists \in BOOLEAN
    /\ lockExists \in {FALSE, dirExists}
    /\ lockOwner = 0
    /\ fpOpen = [p \in Procs |-> FALSE]
    /\ spun = [p \in Procs |-> FALSE]
    /\ argData = [p \in Procs |-> NoData]
    /\ test_df = [p \in Procs |-> NoFrame]
    /\ err = [p \in Procs |-> "none"]

\* an uncaught exception ends the process; its descriptors are closed and its
\* lock is released
Raise(p, e) ==
    /\ pc' = [pc EXCEPT ![p] = "error"]
    /\ err' = [err EXCEPT ![p] = e]
    /\ fpOpen' = [fpOpen EXCEPT ![p] = FALSE]
    /\ lockOwner' = Released(p)
    /\ test_df' = [test_df EXCEPT ![p] = NoFrame]

\* if not os.path.exists(test_results_dir):
main_exists(p) ==
    /\ pc[p] = "main"
    /\ pc' = [pc EXCEPT ![p] = IF dirExists THEN "touch" ELSE "makedirs"]
    /\ UNCHANGED <<file, seqVars, evalVars, dirExists, lockExists, lockOwner,
                   fpOpen, spun, argData, test_df, err>>

\* os.makedirs(test_results_dir): FileExistsError when the directory is there
main_makedirs(p) ==
    /\ pc[p] = "makedirs"
    /\ IF dirExists
       THEN /\ Raise(p, "FileExistsError")
            /\ UNCHANGED dirExists
       ELSE /\ dirExists' = TRUE
            /\ pc' = [pc EXCEPT ![p] = "touch"]
            /\ UNCHANGED <<lockOwner, fpOpen, test_df, err>>
    /\ UNCHANGED <<file, seqVars, evalVars, lockExists, spun, argData>>

\* touch(test_results_lock_filename): open(path, 'a') creates the file; the
\* with block closes the descriptor again
touch(p) ==
    /\ pc[p] = "touch"
    /\ lockExists' = TRUE
    /\ lockOwner' = Released(p)
    /\ pc' = [pc EXCEPT ![p] = "call"]
    /\ UNCHANGED <<file, seqVars, evalVars, dirExists, fpOpen, spun, argData,
                   test_df, err>>

\* threadsafe_save_test_results(lock, filename, args.seed, data=test_results)
\* up to fp = open(lock_filename, 'r+'), which needs the file to exist
threadsafe_save_test_results(p, data) ==
    /\ pc[p] = "call"
    /\ argData' = [argData EXCEPT ![p] = data]
    /\ IF lockExists
       THEN /\ fpOpen' = [fpOpen EXCEPT ![p] = TRUE]
            /\ pc' = [pc EXCEPT ![p] = "lock"]
            /\ UNCHANGED <<lockOwner, test_df, err>>
       ELSE Raise(p, "FileNotFoundError")
    /\ UNCHANGED <<file, seqVars, evalVars, dirExists, lockExists, spun>>

\* a variant whose except branch sets done, leaving the loop without the lock
lock_refused_proceed(p) ==
    /\ spun' = [spun EXCEPT ![p] = TRUE]
    /\ pc' = [pc EXCEPT ![p] = "exists"]
    /\ UNCHANGED <<lockOwner, fpOpen, test_df, err>>

\* a variant that lets the IOError of a refused attempt reach the caller
lock_refused_raise(p) ==
    /\ spun' = [spun EXCEPT ![p] = TRUE]
    /\ Raise(p, "IOError")

\* except IOError: pass -- the loop goes round again
lock_refused(p) ==
    /\ spun' = [spun EXCEPT ![p] = TRUE]
    /\ UNCHANGED <<pc, lockOwner, fpOpen, test_df, err>>

\* a variant that opens the lock file in a with block around the loop only,
\* so that the descriptor is closed, and the lock gone, before func runs
lock_and_run_method_closing(p) ==
    /\ pc[p] = "lock"
    /\ IF lockOwner \in {0, p}
       THEN /\ lockOwner' = Released(p)
            /\ fpOpen' = [fpOpen EXCEPT ![p] = FALSE]
            /\ pc' = [pc EXCEPT ![p] = "exists"]
            /\ UNCHANGED <<spun, test_df, err>>
       ELSE lock_refused(p)
    /\ UNCHANGED <<file, seqVars, evalVars, dirExists, lockExists, argData>>

\* one turn of the while loop: fcntl.lockf(fp, LOCK_EX | LOCK_NB) is granted
\* when no other process holds the lock and raises IOError otherwise
lock_and_run_method(p) ==
    /\ pc[p] = "lock"
    /\ IF lockOwner \in {0, p}
       THEN /\ lockOwner' = p
            /\ pc' = [pc EXCEPT ![p] = "exists"]
            /\ UNCHANGED <<spun, fpOpen, test_df, err>>
       ELSE lock_refused(p)
    /\ UNCHANGED <<file, seqVars, evalVars, dirExists, lockExists, argData>>

\* save_test_results, lines 92-93 and 96-97: build d, test os.path.exists
save_exists(p) ==
    /\ pc[p] = "exists"
    /\ IF exists(file)
       THEN /\ pc' = [pc EXCEPT ![p] = "read"]
            /\ UNCHANGED test_df
       ELSE /\ pc' = [pc EXCEPT ![p] = "to_csv"]
            /\ test_df' = [test_df EXCEPT ![p] = DataFrame(SeedOf(p), argData[p])]
    /\ UNCHANGED <<file, seqVars, evalVars, dirExists, lockExists, lockOwner,
                   fpOpen, spun, argData, err>>

\* save_test_results, lines 94-95: read_csv raises on a file it cannot parse
save_read(p) ==
    /\ pc[p] = "read"
    /\ IF readable(file)
       THEN /\ test_df' = [test_df EXCEPT ![p] =
                  combine_first(DataFrame(SeedOf(p), argData[p]), read_csv(file))]
            /\ pc' = [pc EXCEPT ![p] = "to_csv"]
            /\ UNCHANGED <<lockOwner, fpOpen, err>>
       ELSE Raise(p, "ReadError")
    /\ UNCHANGED <<file, seqVars, evalVars, dirExists, lockExists, spun, argData>>

\* save_test_results, line 98: to_csv opens the path for writing, which
\* truncates it
save_truncate(p) ==
    /\ pc[p] = "to_csv"
    /\ file' = EmptyFile
    /\ pc' = [pc EXCEPT ![p] = "write"]
    /\ UNCHANGED <<seqVars, evalVars, dirExists, lockExists, lockOwner, fpOpen,
                   spun, argData, test_df, err>>

\* save_test_results, line 98: to_csv writes the table and the call returns
save_write(p) ==
    /\ pc[p] = "write"
    /\ file' = to_csv(test_df[p])
    /\ test_df' = [test_df EXCEPT ![p] = NoFrame]
    /\ pc' = [pc EXCEPT ![p] = "return"]
    /\ UNCHANGED <<seqVars, evalVars, dirExists, lockExists, lockOwner, fpOpen,
                   spun, argData, err>>

\* return func(*args, **kwargs): lock_and_run_method returns and fp goes out
\* of scope; the descriptor is closed then (reference counting) or stays open
\* until the interpreter ends
lock_return(p) ==
    /\ pc[p] = "return"
    /\ \E closed \in BOOLEAN :
          /\ fpOpen' = [fpOpen EXCEPT ![p] = ~closed]
          /\ lockOwner' = IF closed THEN Released(p) ELSE lockOwner
    /\ pc' = [pc EXCEPT ![p] = "exit"]
    /\ UNCHANGED <<file, seqVars, evalVars, dirExists, lockExists, spun,
                   argData, test_df, err>>

\* main returns and the process ends
main_exit(p) ==
    /\ pc[p] = "exit"
    /\ fpOpen' = [fpOpen EXCEPT ![p] = FALSE]
    /\ lockOwner' = Released(p)
    /\ pc' = [pc EXCEPT ![p] = "done"]
    /\ UNCHANGED <<file, seqVars, evalVars, dirExists, lockExists, spun,
                   argData, test_df, err>>

\* one step of process p, its test_results being one of the records D
ProcStepWith(p, D) ==
    \/ main_exists(p)
    \/ main_makedirs(p)
    \/ touch(p)
    \/ \E data \in D : threadsafe_save_test_results(p, data)
    \/ lock_and_run_method(p)
    \/ save_exists(p)
    \/ save_read(p)
    \/ save_truncate(p)
    \/ save_write(p)
    \/ lock_return(p)
    \/ main_exit(p)

ProcStep(p) == ProcStepWith(p, MainRecords)

Next == \E p \in Procs : ProcStep(p)

Spec == Init /\ [][Next]_vars

\* the scores of process p in the fair runs: no step depends on their values,
\* so one record per process, different for neighbours, stands for all
ScoresOf(p) == [k \in KeySet |-> IF k = "a" /\ p % 2 = 1 THEN "1.0" ELSE "2.0"]

FairNext == \E p \in Procs : ProcStepWith(p, {ScoresOf(p)})

\* Some process takes a step that changes the state whenever one can.  Weak
\* fairness of every process's steps implies it: while no such step is taken
\* the state stays as it is (a repeated refused attempt changes nothing) and
\* the step of the process that can take one stays enabled.
FairSpec == Init /\ [][FairNext]_vars /\ WF_vars(FairNext)

\* the process is inside save_test_results
InSave(p) == pc[p] \in {"exists", "read", "to_csv", "write"}

\* C1: at most one process is inside save_test_results, and a process that is
\* inside holds the lock, on a descriptor it still has open.
C1_MutualExclusion ==
    /\ \A p \in Procs : InSave(p) => (lockOwner = p /\ fpOpen[p])
    /\ \A p, q \in Procs : (InSave(p) /\ InSave(q)) => p = q

\* one process is writing the table while another has been refused the lock
C1_Witness ==
    \E p, q \in Procs : pc[p] = "write" /\ pc[q] = "lock" /\ spun[q]

AllEnded == \A p \in Procs : pc[p] \in {"done", "error"}

\* the row of process p's seed is on disk with the values p passed
RowSaved(p) ==
    /\ readable(file)
    /\ OneRowFor(file, SeedOf(p))
    /\ \A k \in KeySet : Cell(file, SeedOf(p), k) = argData[p][k]

C9_EventuallySaved ==
    <>(\A p \in Procs :
          /\ pc[p] \in {"done", "error"}
          /\ (argData[p] # NoData => (pc[p] = "done" /\ RowSaved(p))))

\* a process that was refused the lock has ended with its row saved
C9_Witness ==
    \E p \in Procs : spun[p] /\ pc[p] = "done" /\ RowSaved(p) /\ err[p] = "none"

\* C10 as stated: no process fails during the set-up of main, and the lock
\* file exists whenever a process is about to open it.
C10_SetupSafe ==
    \A p \in Procs :
        /\ err[p] \notin {"FileExistsError", "FileNotFoundError"}
        /\ (pc[p] = "call" => lockExists)

\* ------------------------------------------ evaluate_node_classification
\* the label percentages tried, in percent
PctValues == {5, 10}
\* the (micro, macro) F1 pairs a split may score; 0 and 1 are the ends of [0,1]
F1Pairs == {<<0, 0>>, <<1, 0>>, <<1, 1>>}

RECURSIVE SeqsUpTo(_, _)
\* the sequences over S of length at most n
SeqsUpTo(S, n) ==
    IF n = 0 THEN {<<>>}
    ELSE SeqsUpTo(S, n - 1) \cup
         {Append(q, x) : q \in {t \in SeqsUpTo(S, n - 1) : Len(t) = n - 1}, x \in S}

\* np.zeros((rows, cols)), and the same shape of empty split logs
Zeros(rows, cols) == [r \in 1..rows |-> [c \in 1..cols |-> 0]]
NoSplits(rows, cols) == [r \in 1..rows |-> [c \in 1..cols |-> <<>>]]

RECURSIVE SumTo(_, _)
\* f[1] + ... + f[n]
SumTo(f, n) == IF n = 0 THEN 0 ELSE f[n] + SumTo(f, n - 1)

\* a variant that averages along the other axis
mean_axis1(m, rows, cols) ==
    [r \in 1..rows |-> [sum |-> SumTo(m[r], cols), n |-> cols]]

\* m.mean(axis=0): one mean per column, over the rows; a mean is kept as the
\* pair (sum, count), and the count 0 is numpy's nan
mean_axis0(m, rows, cols) ==
    [c \in 1..cols |-> [sum |-> SumTo([r \in 1..rows |-> m[r][c]], rows), n |-> rows]]

\* a variant that also mixes the column index into the random state
random_state_mixed(sd, ix) == sd + ix

\* random_state=seed in the call of split
random_state(sd, ix) == sd

EvalInit ==
    /\ file = AbsentFile
    /\ SeqIdle
    /\ ProcIdle
    /\ n_repeats \in 0..MaxRepeats
    /\ label_percentages \in SeqsUpTo(PctValues, MaxPcts)
    /\ ecall = 0
    /\ seed = 0
    /\ i = 0
    /\ f1_micros = <<>>
    /\ f1_macros = <<>>
    /\ rsUsed = <<>>
    /\ scores = {}
    /\ out = <<>>

Running == Len(out) < ecall

\* lines 19-33 and the first range(n_repeats): a call starts, with the same
\* arguments as the one before
evaluate_begin ==
    /\ ~Running
    /\ ecall < 2
    /\ ecall' = ecall + 1
    /\ f1_micros' = Zeros(n_repeats, Len(label_percentages))
    /\ f1_macros' = Zeros(n_repeats, Len(label_percentages))
    /\ rsUsed' = NoSplits(n_repeats, Len(label_percentages))
    /\ seed' = 0
    /\ i' = 0
    /\ UNCHANGED <<file, seqVars, procVars, n_repeats, label_percentages, scores, out>>

\* lines 39-46: one turn of the inner loop.  The split, the fit and the scores
\* are a function of the arguments, the percentage and the random state: a
\* split not drawn before scores any pair, one drawn before scores as before.
evaluate_cell ==
    /\ Running
    /\ seed < n_repeats
    /\ i < Len(label_percentages)
    /\ \E f1 \in F1Pairs :
          LET rs == random_state(seed, i)
              pct == label_percentages[i + 1]
          IN /\ \A e \in scores : (e[1] = rs /\ e[2] = pct) => e[3] = f1
             /\ scores' = scores \cup {<<rs, pct, f1>>}
             /\ f1_micros' = [f1_micros EXCEPT ![seed + 1][i + 1] = f1[1]]
             /\ f1_macros' = [f1_macros EXCEPT ![seed + 1][i + 1] = f1[2]]
             /\ rsUsed' = [rsUsed EXCEPT ![seed + 1][i + 1] = Append(@, rs)]
    /\ i' = i + 1
    /\ UNCHANGED <<file, seqVars, procVars, n_repeats, label_percentages, ecall,
                   seed, out>>

\* line 47 and the next turn of the outer loop
evaluate_repeat ==
    /\ Running
    /\ seed < n_repeats
    /\ i = Len(label_percentages)
    /\ seed' = seed + 1
    /\ i' = 0
    /\ UNCHANGED <<file, seqVars, procVars, n_repeats, label_percentages, ecall,
                   f1_micros, f1_macros, rsUsed, scores, out>>

\* line 49: return label_percentages, f1_micros.mean(axis=0), f1_macros.mean(axis=0)
evaluate_return ==
    /\ Running
    /\ seed = n_repeats
    /\ out' = Append(out,
                [pcts |-> label_percentages,
                 micro |-> mean_axis0(f1_micros, n_repeats, Len(label_percentages)),
                 macro |-> mean_axis0(f1_macros, n_repeats, Len(label_percentages))])
    /\ UNCHANGED <<file, seqVars, procVars, n_repeats, label_percentages, ecall,
                   seed, i, f1_micros, f1_macros, rsUsed, scores>>

EvalNext ==
    \/ evaluate_begin
    \/ evaluate_cell
    \/ evaluate_repeat
    \/ evaluate_return

EvalSpec == EvalInit /\ [][EvalNext]_vars

\* C7: every split scored into row r was drawn with random state r, the
\* repeat index, whatever the percentage and the call; and two calls with the
\* same arguments return the same tuple.
C7_Deterministic ==
    /\ \A r \in 1..Len(rsUsed) : \A c \in 1..Len(rsUsed[r]) :
          \A k \in 1..Len(rsUsed[r][c]) : rsUsed[r][c][k] = r - 1
    /\ (Len(out) = 2 => out[1] = out[2])

\* two calls have returned, over several repeats and two different
\* percentages, with scores that differ between the splits
C7_Witness ==
    /\ Len(out) = 2
    /\ n_repeats = MaxRepeats
    /\ Len(label_percentages) = MaxPcts
    /\ \E c, d \in 1..Len(label_percentages) : label_percentages[c] # label_percentages[d]
    /\ \E e, g \in scores : e[3] # g[3]
    /\ \E c \in 1..Len(label_percentages) : out[1].micro[c].sum # out[1].macro[c].sum

\* C8: with n_repeats >= 1, no cell is written twice; when a call has returned
\* every cell has been written once, the percentages come back unchanged, and
\* both arrays have one entry per percentage, each the mean over the repeats
\* of its column and within [0,1].
C8_ShapeAndRange ==
    n_repeats >= 1 =>
        /\ \A r \in 1..Len(rsUsed) : \A c \in 1..Len(rsUsed[r]) : Len(rsUsed[r][c]) <= 1
        /\ (ecall >= 1 /\ ~Running) =>
              LET o == out[Len(out)]
                  cols == Len(label_percentages)
              IN /\ \A r \in 1..n_repeats : \A c \in 1..cols : Len(rsUsed[r][c]) = 1
                 /\ o.pcts = label_percentages
                 /\ Len(o.micro) = cols
                 /\ Len(o.macro) = cols
                 /\ \A c \in 1..cols :
                       /\ o.micro[c].n = n_repeats
                       /\ o.macro[c].n = n_repeats
                       /\ o.micro[c].sum = SumTo([r \in 1..n_repeats |-> f1_micros[r][c]], n_repeats)
                       /\ o.macro[c].sum = SumTo([r \in 1..n_repeats |-> f1_macros[r][c]], n_repeats)
                       /\ 0 <= o.micro[c].sum /\ o.micro[c].sum <= o.micro[c].n
                       /\ 0 <= o.macro[c].sum /\ o.macro[c].sum <= o.macro[c].n

\* a call has returned means strictly between 0 and 1 for more repeats than
\* percentages
C8_Witness ==
    /\ ecall >= 1 /\ ~Running
    /\ n_repeats = MaxRepeats
    /\ Len(label_percentages) = 1
    /\ out[Len(out)].micro[1].sum = 1
    /\ out[Len(out)].macro[1].sum = 0

====
